---- MODULE Spec2Model ----
(***************************************************************************)
(* Model of tools/azure_vm_zone_costs.py: an estimator of the monthly cost *)
(* of a primary / disaster-recovery VM deployment from the Azure Retail    *)
(* Prices catalog.                                                         *)
(*                                                                         *)
(* Strings on which the program does substring tests or case conversion    *)
(* are sequences of one-character strings, so that lower(), replace(),     *)
(* strip() and "in" are computed and not assumed.  A price record is a     *)
(* TLA+ record whose DOMAIN is the set of keys present in the JSON item; a *)
(* missing key is a key outside the DOMAIN.  Prices are integers (minor    *)
(* currency units).                                                        *)
(***************************************************************************)
EXTENDS Integers, Sequences, FiniteSets, TLC

(***************************************************************************)
(* Bounds of the model.                                                    *)
(***************************************************************************)
\* longest record sequence handed to select_vm_price in SpecVm
MaxVmRecs == 2
\* longest record sequence handed to select_disk_price in SpecDisk
MaxDiskRecs == 2
\* most pages the catalog serves for one query in SpecFetch
MaxPages == 2
\* most items on one page in SpecFetch
MaxPageItems == 1
\* longest record list one catalog query yields in Spec
MaxRecs == 2
\* largest --instances in Spec
MaxInstances == 2

(***************************************************************************)
(* String literals of the source.                                          *)
(***************************************************************************)
str_hour == <<"h", "o", "u", "r">>
str_Windows == <<"W", "i", "n", "d", "o", "w", "s">>
str_spot == <<"s", "p", "o", "t">>
str_low_priority == <<"l", "o", "w", " ", "p", "r", "i", "o", "r", "i", "t", "y">>
str_month == <<"m", "o", "n", "t", "h">>
str_Premium_SSD_Managed_Disks == <<"P", "r", "e", "m", "i", "u", "m", " ", "S", "S", "D", " ", "M", "a", "n", "a", "g", "e", "d", " ", "D", "i", "s", "k", "s">>
str_lrs == <<"l", "r", "s">>
str_zrs == <<"z", "r", "s">>
str_gb == <<"g", "b">>
str_bandwidth == <<"b", "a", "n", "d", "w", "i", "d", "t", "h">>
str_zone == <<"z", "o", "n", "e">>
str_inter_zone_hyphen == <<"i", "n", "t", "e", "r", "-", "z", "o", "n", "e">>
str_inter_zone_space == <<"i", "n", "t", "e", "r", " ", "z", "o", "n", "e">>
str_standard_ == <<"s", "t", "a", "n", "d", "a", "r", "d", "_">>

(***************************************************************************)
(* Python str operations.                                                  *)
(***************************************************************************)
UpperToLower ==
    [A |-> "a", B |-> "b", C |-> "c", D |-> "d", E |-> "e", F |-> "f",
     G |-> "g", H |-> "h", I |-> "i", J |-> "j", K |-> "k", L |-> "l",
     M |-> "m", N |-> "n", O |-> "o", P |-> "p", Q |-> "q", R |-> "r",
     S |-> "s", T |-> "t", U |-> "u", V |-> "v", W |-> "w", X |-> "x",
     Y |-> "y", Z |-> "z"]

UpperLetters == DOMAIN UpperToLower

LowerChar(c) == IF c \in UpperLetters THEN UpperToLower[c] ELSE c

\* s.lower()
RECURSIVE Lower(_)
Lower(s) == IF s = <<>> THEN <<>> ELSE <<LowerChar(Head(s))>> \o Lower(Tail(s))

\* sub in s
Contains(s, sub) ==
    \E i \in 0..(Len(s) - Len(sub)) : \A j \in 1..Len(sub) : s[i + j] = sub[j]

\* s.replace(old, new), old not empty: every non-overlapping occurrence,
\* scanning from the left
RECURSIVE Replace(_, _, _)
Replace(s, old, new) ==
    IF Len(s) < Len(old) THEN s
    ELSE IF SubSeq(s, 1, Len(old)) = old
         THEN new \o Replace(SubSeq(s, Len(old) + 1, Len(s)), old, new)
         ELSE <<Head(s)>> \o Replace(Tail(s), old, new)

Whitespace == {" ", "\t", "\n", "\r"}

RECURSIVE LStrip(_)
LStrip(s) == IF s # <<>> /\ Head(s) \in Whitespace THEN LStrip(Tail(s)) ELSE s

RECURSIVE RStrip(_)
RStrip(s) ==
    IF s # <<>> /\ s[Len(s)] \in Whitespace
    THEN RStrip(SubSeq(s, 1, Len(s) - 1))
    ELSE s

\* s.strip()
Strip(s) == RStrip(LStrip(s))

(***************************************************************************)
(* Price records.                                                          *)
(***************************************************************************)
\* Python None
None == [none |-> TRUE]

\* Python None where the other values are character sequences (an
\* Optional[str]): a sequence that is no string, because its element is not
\* one character
NoneStr == <<"None">>

\* a name not bound yet
Unbound == [unbound |-> TRUE]

\* (r.get(k) or ""), k a text field
GetStr(r, k) == IF k \in DOMAIN r THEN r[k] ELSE <<>>

\* r.get("type")
GetType(r) == IF "type" \in DOMAIN r THEN r.type ELSE "None"

\* the sort key of both selectors and of the bandwidth finder:
\* r.get("retailPrice") or 0.0
PriceKey(r) == IF "retailPrice" \in DOMAIN r THEN r.retailPrice ELSE 0

\* r without key k (the catalog item does not carry it)
Without(r, k) == [f \in DOMAIN r \ {k} |-> r[f]]

\* the sequences over S of length at most n
BoundedSeq(S, n) == UNION {[1..k -> S] : k \in 0..n}

\* [r for r in records if Keep(r)], as a sequence in the order of records
RECURSIVE Filter(_, _)
Filter(records, keep) ==
    IF records = <<>> THEN <<>>
    ELSE IF Head(records) \in keep
         THEN <<Head(records)>> \o Filter(Tail(records), keep)
         ELSE Filter(Tail(records), keep)

\* list.sort(key=PriceKey, reverse=True) places x into a list sorted so far:
\* the sort is stable, and reverse=True keeps the original order of records
\* with equal keys, so x goes behind every record whose key is >= its own
RECURSIVE InsertDesc(_, _)
InsertDesc(sorted, x) ==
    IF sorted = <<>> THEN <<x>>
    ELSE IF PriceKey(Head(sorted)) >= PriceKey(x)
         THEN <<Head(sorted)>> \o InsertDesc(Tail(sorted), x)
         ELSE <<x>> \o sorted

RECURSIVE SortDescFrom(_, _)
SortDescFrom(sorted, rest) ==
    IF rest = <<>> THEN sorted
    ELSE SortDescFrom(InsertDesc(sorted, Head(rest)), Tail(rest))

\* mutant: the sort is left out, matches[0] is the first match
SortDescOmitted(matches) == matches

\* matches.sort(key=lambda r: r.get("retailPrice") or 0.0, reverse=True)
SortDesc(matches) == SortDescFrom(<<>>, matches)

\* list.sort(key=PriceKey): stable, x goes behind every record whose key
\* is <= its own
RECURSIVE InsertAsc(_, _)
InsertAsc(sorted, x) ==
    IF sorted = <<>> THEN <<x>>
    ELSE IF PriceKey(Head(sorted)) <= PriceKey(x)
         THEN <<Head(sorted)>> \o InsertAsc(Tail(sorted), x)
         ELSE <<x>> \o sorted

RECURSIVE SortAscFrom(_, _)
SortAscFrom(sorted, rest) ==
    IF rest = <<>> THEN sorted
    ELSE SortAscFrom(InsertAsc(sorted, Head(rest)), Tail(rest))

\* mutant: the candidates are sorted like the selectors' matches
SortAscReversed(candidates) == SortDesc(candidates)

\* candidates.sort(key=lambda r: r.get("retailPrice") or 0.0)
SortAsc(candidates) == SortAscFrom(<<>>, candidates)

(***************************************************************************)
(* select_vm_price                                                         *)
(***************************************************************************)
\* mutant: is_match without the meterName half of the spot exclusion
IsVmMatchSkuSpotOnly(r, windows) ==
    /\ GetType(r) = "Consumption"
    /\ Contains(Lower(GetStr(r, "unitOfMeasure")), str_hour)
    /\ (windows => Contains(GetStr(r, "productName"), str_Windows))
    /\ ~ Contains(Lower(GetStr(r, "skuName")), str_spot)

\* is_match of select_vm_price
IsVmMatch(r, windows) ==
    /\ GetType(r) = "Consumption"
    /\ Contains(Lower(GetStr(r, "unitOfMeasure")), str_hour)
    /\ (windows => Contains(GetStr(r, "productName"), str_Windows))
    /\ ~ \/ Contains(Lower(GetStr(r, "skuName")), str_spot)
         \/ Contains(Lower(GetStr(r, "meterName")), str_spot)
         \/ Contains(Lower(GetStr(r, "meterName")), str_low_priority)

VmMatches(records, windows) ==
    Filter(records, {r \in {records[i] : i \in DOMAIN records} : IsVmMatch(r, windows)})

select_vm_price(records, windows) ==
    LET matches == VmMatches(records, windows)
    IN  IF matches = <<>> THEN None ELSE SortDesc(matches)[1]

(***************************************************************************)
(* select_disk_price                                                       *)
(***************************************************************************)
\* mutant: is_match that falls back to any redundancy code
IsDiskMatchAnyTier(r, redundancy) ==
    /\ GetType(r) = "Consumption"
    /\ Contains(Lower(GetStr(r, "unitOfMeasure")), str_month)
    /\ Contains(GetStr(r, "productName"), str_Premium_SSD_Managed_Disks)
    /\ \/ Contains(Lower(GetStr(r, "meterName")), str_lrs)
       \/ Contains(Lower(GetStr(r, "meterName")), str_zrs)

\* is_match of select_disk_price; redundancy is already lower-cased
IsDiskMatch(r, redundancy) ==
    /\ GetType(r) = "Consumption"
    /\ Contains(Lower(GetStr(r, "unitOfMeasure")), str_month)
    /\ Contains(GetStr(r, "productName"), str_Premium_SSD_Managed_Disks)
    /\ \/ redundancy = str_lrs /\ Contains(Lower(GetStr(r, "meterName")), str_lrs)
       \/ redundancy = str_zrs /\ Contains(Lower(GetStr(r, "meterName")), str_zrs)

DiskMatches(records, redundancy) ==
    Filter(records,
           {r \in {records[i] : i \in DOMAIN records} : IsDiskMatch(r, Lower(redundancy))})

select_disk_price(records, redundancy) ==
    LET matches == DiskMatches(records, redundancy)
    IN  IF matches = <<>> THEN None ELSE SortDesc(matches)[1]

(***************************************************************************)
(* find_interzone_bandwidth_rate, get_vm_hourly_price,                     *)
(* get_disk_monthly_price: what they do with the fetched records.          *)
(***************************************************************************)
\* the serviceFamily / serviceName the two filters of
\* find_interzone_bandwidth_rate ask for, in the order of the list
Filters == <<"Networking", "Bandwidth">>

\* the test that appends r to candidates
IsZoneCandidate(r) ==
    /\ Contains(Lower(GetStr(r, "unitOfMeasure")), str_gb)
    /\ Contains(Lower(GetStr(r, "productName")), str_bandwidth)
    /\ \/ Contains(Lower(GetStr(r, "meterName")), str_zone)
       \/ Contains(Lower(GetStr(r, "meterName")), str_inter_zone_hyphen)
       \/ Contains(Lower(GetStr(r, "meterName")), str_inter_zone_space)

\* candidates of one filter's records, in the order of the records
ZoneCandidates(fetched_recs) ==
    Filter(fetched_recs,
           {r \in {fetched_recs[i] : i \in DOMAIN fetched_recs} : IsZoneCandidate(r)})

\* vm_size.lower().replace("standard_", "").strip()
TargetLower(vm_size) == Strip(Replace(Lower(vm_size), str_standard_, <<>>))

\* get_vm_hourly_price once fetch_prices has returned fetched_recs
get_vm_hourly_price(fetched_recs, vm_size, is_windows) ==
    LET target_lower == TargetLower(vm_size)
        keep == {r \in {fetched_recs[i] : i \in DOMAIN fetched_recs} :
                    \/ Contains(Lower(GetStr(r, "skuName")), target_lower)
                    \/ Contains(Lower(GetStr(r, "armSkuName")), target_lower)}
        filtered == Filter(fetched_recs, keep)
    IN  IF filtered = <<>> THEN None ELSE select_vm_price(filtered, is_windows)

\* get_disk_monthly_price once fetch_prices has returned fetched_recs
get_disk_monthly_price(fetched_recs, disk_redundancy) ==
    select_disk_price(fetched_recs, disk_redundancy)

(***************************************************************************)
(* compute_primary_costs and main: the arithmetic and the tests.           *)
(***************************************************************************)
HoursPerMonth == 730

\* mutant: the hourly price is not multiplied by the instance count
VmMonthPerFleet(n, rec) == HoursPerMonth * PriceKey(rec)

\* instances * 730 * (vm.get("retailPrice") or 0.0)
VmMonth(n, rec) == n * HoursPerMonth * PriceKey(rec)

\* instances * (disk.get("retailPrice") or 0.0)
DiskMonth(n, rec) == n * PriceKey(rec)

\* mutant: a missing price is never noticed
IsNoneNever(x) == FALSE

\* "if vm is None", "if disk is None"
IsNone(x) == x = None

\* truth value of a dict or None in "if iz"
DictTruthy(d) == d # None /\ DOMAIN d # {}

\* d[k] = v on a dict
SetKey(d, k, v) == [x \in DOMAIN d \cup {k} |-> IF x = k THEN v ELSE d[x]]

\* mutant: nothing is recorded when no inter-zone rate is found
AddInterzoneOmitsMissing(cost, interzone_gb, rate) ==
    IF DictTruthy(rate)
    THEN [total |-> cost.total + interzone_gb * PriceKey(rate),
          details |-> SetKey(cost.details, "interzone_data_month",
                             interzone_gb * PriceKey(rate))]
    ELSE cost

\* the "if iz / else" of compute_primary_costs applied to total and details
AddInterzone(cost, interzone_gb, rate) ==
    IF DictTruthy(rate)
    THEN [total |-> cost.total + interzone_gb * PriceKey(rate),
          details |-> SetKey(cost.details, "interzone_data_month",
                             interzone_gb * PriceKey(rate))]
    ELSE [total |-> cost.total,
          details |-> SetKey(cost.details, "interzone_data_month", 0)]

\* mutant: cold DR provisions no disks either
DiskCountFollowsCompute(dr_mode, instances) ==
    IF dr_mode = "warm" THEN 1 ELSE IF dr_mode = "hot" THEN instances ELSE 0

\* dr_instances of main
DrInstances(dr_mode, instances) ==
    IF dr_mode = "warm" THEN 1 ELSE IF dr_mode = "hot" THEN instances ELSE 0

\* disk_count of main
DiskCount(dr_mode, instances) ==
    IF dr_mode \in {"cold", "hot"} THEN instances ELSE 1

(***************************************************************************)
(* Field values of catalog items.                                          *)
(***************************************************************************)
uom_1_Hour == <<"1", " ", "H", "o", "u", "r">>
uom_1_HOUR == <<"1", " ", "H", "O", "U", "R">>
uom_1_Month == <<"1", "/", "M", "o", "n", "t", "h">>
uom_1_GB == <<"1", " ", "G", "B">>
pn_Windows == <<"D", "s", "v", "5", " ", "S", "e", "r", "i", "e", "s", " ", "W", "i", "n", "d", "o", "w", "s">>
pn_Linux == <<"D", "s", "v", "5", " ", "S", "e", "r", "i", "e", "s">>
pn_windows_lower == <<"D", "s", "v", "5", " ", "S", "e", "r", "i", "e", "s", " ", "w", "i", "n", "d", "o", "w", "s">>
pn_Disks == <<"P", "r", "e", "m", "i", "u", "m", " ", "S", "S", "D", " ", "M", "a", "n", "a", "g", "e", "d", " ", "D", "i", "s", "k", "s">>
pn_Disks_lower == <<"p", "r", "e", "m", "i", "u", "m", " ", "s", "s", "d", " ", "m", "a", "n", "a", "g", "e", "d", " ", "d", "i", "s", "k", "s">>
pn_Std_Disks == <<"S", "t", "a", "n", "d", "a", "r", "d", " ", "S", "S", "D", " ", "M", "a", "n", "a", "g", "e", "d", " ", "D", "i", "s", "k", "s">>
pn_Bandwidth == <<"B", "a", "n", "d", "w", "i", "d", "t", "h">>
sku_D8s_v5 == <<"D", "8", "s", " ", "v", "5">>
sku_D8s_v5_Spot == <<"D", "8", "s", " ", "v", "5", " ", "S", "p", "o", "t">>
sku_D4s_v5 == <<"D", "4", "s", " ", "v", "5">>
arm_D8s_v5 == <<"S", "t", "a", "n", "d", "a", "r", "d", "_", "D", "8", "s", "_", "v", "5">>
arm_D4s_v5 == <<"S", "t", "a", "n", "d", "a", "r", "d", "_", "D", "4", "s", "_", "v", "5">>
mn_D8s_v5 == <<"D", "8", "s", " ", "v", "5">>
mn_D8s_v5_alt == <<"D", "8", "s", " ", "v", "5", "/", "D", "8", "d", "s", " ", "v", "5">>
mn_D8s_v5_SPOT == <<"D", "8", "s", " ", "v", "5", " ", "S", "P", "O", "T">>
mn_D8s_v5_Low_Priority == <<"D", "8", "s", " ", "v", "5", " ", "L", "o", "w", " ", "P", "r", "i", "o", "r", "i", "t", "y">>
mn_P10_LRS == <<"P", "1", "0", " ", "L", "R", "S", " ", "D", "i", "s", "k">>
mn_P10_ZRS == <<"P", "1", "0", " ", "Z", "R", "S", " ", "D", "i", "s", "k">>
mn_P10_lrs_lower == <<"P", "1", "0", " ", "l", "r", "s", " ", "D", "i", "s", "k">>
mn_P10_LRS_ZRS == <<"P", "1", "0", " ", "L", "R", "S", "/", "Z", "R", "S", " ", "D", "i", "s", "k">>
mn_P10_plain == <<"P", "1", "0", " ", "D", "i", "s", "k">>
mn_Inter_Zone == <<"I", "n", "t", "e", "r", "-", "Z", "o", "n", "e", " ", "D", "a", "t", "a", " ", "T", "r", "a", "n", "s", "f", "e", "r">>
mn_Zone_In == <<"A", "v", "a", "i", "l", "a", "b", "i", "l", "i", "t", "y", " ", "Z", "o", "n", "e", " ", "D", "a", "t", "a", " ", "T", "r", "a", "n", "s", "f", "e", "r", " ", "I", "n">>
mn_Egress == <<"D", "a", "t", "a", " ", "T", "r", "a", "n", "s", "f", "e", "r", " ", "O", "u", "t">>
size_D8s_v5 == <<"D", "8", "s", " ", "v", "5">>
size_Standard_D8s_v5 == <<"S", "t", "a", "n", "d", "a", "r", "d", "_", "D", "8", "s", "_", "v", "5">>
red_lrs == <<"l", "r", "s">>
red_zrs == <<"z", "r", "s">>
red_LRS == <<"L", "R", "S">>
red_ZRS == <<"Z", "R", "S">>

(***************************************************************************)
(* State.                                                                  *)
(***************************************************************************)
VARIABLES
    \* a call of select_vm_price / select_disk_price
    records,        \* the argument records
    windows,        \* the argument windows of select_vm_price
    redundancy,     \* the argument redundancy of select_disk_price
    selected,       \* the value returned, Unbound before the return
    sel_pc          \* "call" | "returned"

VARIABLES
    \* a call of fetch_prices
    results,        \* the local results
    next_link,      \* the local next_link
    requests,       \* the GET requests issued so far, in order
    served,         \* the JSON bodies the catalog answered with, in order
    fetched,        \* the value returned to the caller, Unbound before
    fetch_pc        \* "loop" | "returned" | "raised"

VARIABLES
    \* one run of main
    args,            \* the parsed command line
    pc,              \* where the run stands
    queries,         \* the catalog queries issued so far, in order
    vm, disk,        \* locals of compute_primary_costs
    total, details,  \* locals of compute_primary_costs
    f, recs, iz,     \* find_interzone_bandwidth_rate: index of the filter
                     \* in turn, its records, and the value it returned
    primary_total, primary_details,
    dr_instances, disk_count,
    dr_vm, dr_disk,  \* vm and disk of main
    dr_total, dr_details,
    stdout, stderr,  \* what the run printed
    exit_code        \* <<>> while running, <<n>> once exited with n

selVars == <<records, windows, redundancy, selected, sel_pc>>

fetchVars == <<results, next_link, requests, served, fetched, fetch_pc>>

mainVars ==
    <<args, pc, queries, vm, disk, total, details, f, recs, iz,
      primary_total, primary_details, dr_instances, disk_count, dr_vm, dr_disk,
      dr_total, dr_details, stdout, stderr, exit_code>>

vars == <<selVars, fetchVars, mainVars>>

MainIdle ==
    /\ args = <<>>
    /\ pc = "idle"
    /\ queries = <<>>
    /\ vm = Unbound /\ disk = Unbound
    /\ total = 0 /\ details = <<>>
    /\ f = 0 /\ recs = Unbound /\ iz = Unbound
    /\ primary_total = Unbound /\ primary_details = Unbound
    /\ dr_instances = Unbound /\ disk_count = Unbound
    /\ dr_vm = Unbound /\ dr_disk = Unbound
    /\ dr_total = Unbound /\ dr_details = Unbound
    /\ stdout = <<>> /\ stderr = <<>>
    /\ exit_code = <<>>

FetchIdle ==
    /\ results = <<>>
    /\ next_link = NoneStr
    /\ requests = <<>>
    /\ served = <<>>
    /\ fetched = Unbound
    /\ fetch_pc = "idle"

SelIdle ==
    /\ records = <<>>
    /\ windows = FALSE
    /\ redundancy = <<>>
    /\ selected = Unbound
    /\ sel_pc = "idle"

(***************************************************************************)
(* SpecVm: select_vm_price applied to every record sequence of length at   *)
(* most MaxVmRecs over VmUniverse.                                         *)
(***************************************************************************)
\* a Windows pay-as-you-go hourly meter of the requested size
VmBase ==
    [type |-> "Consumption", unitOfMeasure |-> uom_1_Hour,
     productName |-> pn_Windows, skuName |-> sku_D8s_v5,
     armSkuName |-> arm_D8s_v5, meterName |-> mn_D8s_v5, retailPrice |-> 2]

\* items that differ from VmBase in one of the fields is_match reads, at the
\* highest price, and two near-duplicate passing meters at every price
\* (retailPrice missing, 1 and 2)
VmUniverse ==
    {[VmBase EXCEPT !.retailPrice = 1], VmBase, Without(VmBase, "retailPrice")}
    \cup {[VmBase EXCEPT !.meterName = mn_D8s_v5_alt, !.retailPrice = 1],
          [VmBase EXCEPT !.meterName = mn_D8s_v5_alt],
          Without([VmBase EXCEPT !.meterName = mn_D8s_v5_alt], "retailPrice")}
    \cup {[VmBase EXCEPT !.unitOfMeasure = uom_1_HOUR],
          [VmBase EXCEPT !.type = "Reservation"],
          Without(VmBase, "type"),
          [VmBase EXCEPT !.unitOfMeasure = uom_1_Month],
          Without(VmBase, "unitOfMeasure"),
          [VmBase EXCEPT !.productName = pn_Linux],
          [VmBase EXCEPT !.productName = pn_windows_lower],
          [VmBase EXCEPT !.skuName = sku_D8s_v5_Spot],
          [VmBase EXCEPT !.meterName = mn_D8s_v5_SPOT],
          [VmBase EXCEPT !.meterName = mn_D8s_v5_Low_Priority]}

InitVm ==
    /\ records \in BoundedSeq(VmUniverse, MaxVmRecs)
    /\ windows \in BOOLEAN
    /\ redundancy = <<>>
    /\ selected = Unbound
    /\ sel_pc = "call"
    /\ FetchIdle
    /\ MainIdle

CallSelectVm ==
    /\ sel_pc = "call"
    /\ selected' = select_vm_price(records, windows)
    /\ sel_pc' = "returned"
    /\ UNCHANGED <<records, windows, redundancy>>
    /\ UNCHANGED fetchVars
    /\ UNCHANGED mainVars

NextVm == CallSelectVm

SpecVm == InitVm /\ [][NextVm]_vars

(***************************************************************************)
(* Claims about select_vm_price (SpecVm).                                  *)
(***************************************************************************)
\* the input sequence reordered by the permutation p of its indices
Permute(s, p) == [i \in DOMAIN s |-> s[p[i]]]

Reorderings(s) == {Permute(s, p) : p \in Permutations(DOMAIN s)}

VmCallReturned == sel_pc = "returned" /\ redundancy = <<>>

\* C3 (as stated): select_vm_price returns the same record for every
\* permutation of the input sequence, also when several distinct passing
\* records share the highest retailPrice.
C3_SameRecordForEveryPermutation ==
    VmCallReturned =>
        \A q \in Reorderings(records) : select_vm_price(q, windows) = selected

\* the passing records of the input that carry the highest price key
TopVmMatches ==
    LET m == VmMatches(records, windows)
        passing == {m[i] : i \in DOMAIN m}
    IN  {r \in passing : \A o \in passing : PriceKey(r) >= PriceKey(o)}

\* C3 (amended): for every permutation of the input sequence select_vm_price
\* returns none exactly when it returns none for the input itself, and
\* otherwise a record with the same retailPrice (missing counted as 0); it
\* returns the very same record whenever a single passing record carries the
\* highest retailPrice.  When several distinct passing records share the
\* highest retailPrice it returns the one that comes first in the sequence
\* it was given.
C3_SamePriceForEveryPermutation ==
    VmCallReturned =>
        /\ \A q \in Reorderings(records) :
              LET other == select_vm_price(q, windows)
              IN  /\ (other = None) <=> (selected = None)
                  /\ other # None => PriceKey(other) = PriceKey(selected)
                  /\ Cardinality(TopVmMatches) = 1 => other = selected
        /\ selected # None =>
              \E i \in DOMAIN records :
                  /\ records[i] = selected
                  /\ \A j \in 1..(i - 1) : records[j] \notin TopVmMatches

\* C3 witness: the call has returned for an input whose two records are
\* distinct, both pass and share the highest price; the first is returned
C3_Witness ==
    /\ VmCallReturned
    /\ Len(records) = 2
    /\ records[1] # records[2]
    /\ TopVmMatches = {records[1], records[2]}
    /\ selected = records[1]

\* C4: select_vm_price returns none exactly when no record passes the
\* predicate (type is Consumption, unit contains "hour" in any case,
\* productName contains "Windows" when windows is set, neither skuName nor
\* meterName contains "spot" and meterName does not contain "low priority",
\* in any case); otherwise it returns a passing record whose retailPrice
\* (missing counted as 0) is >= that of every passing record.  A spot or
\* low-priority record is never returned.
C4_NoneIffNoMatchElseMaxPassing ==
    VmCallReturned =>
        LET price(r) == IF "retailPrice" \in DOMAIN r THEN r.retailPrice ELSE 0
            text(r, k) == IF k \in DOMAIN r THEN r[k] ELSE <<>>
            spot(r) == \/ Contains(Lower(text(r, "skuName")), str_spot)
                       \/ Contains(Lower(text(r, "meterName")), str_spot)
                       \/ Contains(Lower(text(r, "meterName")), str_low_priority)
            passes(r) == /\ "type" \in DOMAIN r /\ r.type = "Consumption"
                         /\ Contains(Lower(text(r, "unitOfMeasure")), str_hour)
                         /\ windows => Contains(text(r, "productName"), str_Windows)
                         /\ ~ spot(r)
            passing == {r \in {records[i] : i \in DOMAIN records} : passes(r)}
        IN  /\ (selected = None) <=> (passing = {})
            /\ selected # None =>
                  /\ selected \in passing
                  /\ \A r \in passing : price(selected) >= price(r)
                  /\ ~ spot(selected)

\* C4 witness: a record is returned although the input also holds a
\* low-priority meter that is otherwise matching and priced higher
C4_Witness ==
    /\ VmCallReturned
    /\ windows
    /\ selected # None
    /\ PriceKey(selected) = 1
    /\ \E i \in DOMAIN records :
          /\ Contains(Lower(GetStr(records[i], "meterName")), str_low_priority)
          /\ PriceKey(records[i]) > PriceKey(selected)

(***************************************************************************)
(* SpecDisk: select_disk_price applied to every record sequence of length  *)
(* at most MaxDiskRecs over DiskUniverse.                                  *)
(***************************************************************************)
\* a Premium SSD P10 locally-redundant monthly meter
DiskBase ==
    [type |-> "Consumption", unitOfMeasure |-> uom_1_Month,
     productName |-> pn_Disks, skuName |-> <<"P", "1", "0">>,
     meterName |-> mn_P10_LRS, retailPrice |-> 2]

DiskUniverse ==
    {[DiskBase EXCEPT !.retailPrice = 1], DiskBase, Without(DiskBase, "retailPrice")}
    \cup {[DiskBase EXCEPT !.meterName = mn_P10_ZRS, !.retailPrice = 1],
          [DiskBase EXCEPT !.meterName = mn_P10_ZRS, !.retailPrice = 3]}
    \cup {[DiskBase EXCEPT !.meterName = mn_P10_lrs_lower],
          [DiskBase EXCEPT !.meterName = mn_P10_LRS_ZRS, !.retailPrice = 3],
          [DiskBase EXCEPT !.meterName = mn_P10_plain, !.retailPrice = 3],
          Without(DiskBase, "meterName"),
          [DiskBase EXCEPT !.type = "Reservation", !.retailPrice = 3],
          [DiskBase EXCEPT !.unitOfMeasure = uom_1_Hour, !.retailPrice = 3],
          [DiskBase EXCEPT !.productName = pn_Std_Disks, !.retailPrice = 3],
          [DiskBase EXCEPT !.productName = pn_Disks_lower, !.retailPrice = 3]}

\* --disk-redundancy has choices lrs and zrs; select_disk_price lower-cases
\* whatever its caller passes
Redundancies == {red_lrs, red_zrs, red_LRS, red_ZRS}

InitDisk ==
    /\ records \in BoundedSeq(DiskUniverse, MaxDiskRecs)
    /\ windows = FALSE
    /\ redundancy \in Redundancies
    /\ selected = Unbound
    /\ sel_pc = "call"
    /\ FetchIdle
    /\ MainIdle

CallSelectDisk ==
    /\ sel_pc = "call"
    /\ selected' = select_disk_price(records, redundancy)
    /\ sel_pc' = "returned"
    /\ UNCHANGED <<records, windows, redundancy>>
    /\ UNCHANGED fetchVars
    /\ UNCHANGED mainVars

NextDisk == CallSelectDisk

SpecDisk == InitDisk /\ [][NextDisk]_vars

(***************************************************************************)
(* Claims about select_disk_price (SpecDisk).                              *)
(***************************************************************************)
DiskCallReturned == sel_pc = "returned" /\ redundancy # <<>>

\* the redundancy code the request does not name
OtherTier(code) == IF code = str_lrs THEN str_zrs ELSE str_lrs

MeterNames(r, code) == Contains(Lower(GetStr(r, "meterName")), code)

\* C5 (as stated): with redundancy lrs (any letter case) select_disk_price
\* never returns a record whose meterName names zrs, with redundancy zrs
\* never one whose meterName names lrs; when no record carries the requested
\* code the result is none.
C5_NeverOtherTier ==
    DiskCallReturned =>
        /\ selected # None => ~ MeterNames(selected, OtherTier(Lower(redundancy)))
        /\ (\A i \in DOMAIN records : ~ MeterNames(records[i], Lower(redundancy)))
              => selected = None

\* C5 (amended): select_disk_price with redundancy lrs or zrs (any letter
\* case) only returns a record whose meterName contains the requested code,
\* so a record whose meterName names only the other tier is never returned
\* (one whose meterName names both codes can be); there is no fallback:
\* when no record carries the requested code the result is none.
C5_OnlyRequestedTier ==
    DiskCallReturned =>
        /\ selected # None =>
              /\ \E i \in DOMAIN records : records[i] = selected
              /\ MeterNames(selected, Lower(redundancy))
        /\ (\A i \in DOMAIN records : ~ MeterNames(records[i], Lower(redundancy)))
              => selected = None

\* C5 witness: upper-case request, the input holds a matching record of the
\* other tier at a higher price, and the record of the requested tier is
\* returned
C5_Witness ==
    /\ DiskCallReturned
    /\ redundancy = red_LRS
    /\ selected # None
    /\ \E i \in DOMAIN records :
          /\ IsDiskMatch(records[i], str_zrs)
          /\ ~ MeterNames(records[i], str_lrs)
          /\ PriceKey(records[i]) > PriceKey(selected)

(***************************************************************************)
(* SpecFetch: fetch_prices against a catalog that answers every page       *)
(* request with a failure or with a JSON body of its choice.               *)
(***************************************************************************)
\* the catalog items are opaque to fetch_prices
ItemSet == {"a", "b"}

\* continuation URLs the catalog hands out
Links == {<<"l", "i", "n", "k", "1">>, <<"l", "i", "n", "k", "2">>}

\* JSON bodies: "Items" may be absent, "NextPageLink" may be absent, null,
\* the empty string or a URL
Bodies ==
    LET pages == BoundedSeq(ItemSet, MaxPageItems)
        withItems == {[Items |-> p] : p \in pages} \cup {<<>>}
    IN  withItems
        \cup {b @@ [NextPageLink |-> l] : b \in withItems, l \in Links \cup {NoneStr, <<>>}}

\* data.get("Items", [])
BodyItems(data) == IF "Items" \in DOMAIN data THEN data.Items ELSE <<>>

\* data.get("NextPageLink")
BodyNextLink(data) ==
    IF "NextPageLink" \in DOMAIN data THEN data.NextPageLink ELSE NoneStr

\* truth value of next_link in "if next_link" / "if not next_link"
Truthy(link) == link # NoneStr /\ link # <<>>

\* mutant: results is overwritten by the page instead of extended
ExtendOverwrites(res, items) == items

\* results.extend(items)
Extend(res, items) == res \o items

\* the request of one iteration: the stored link verbatim, or API_BASE with
\* the currency and filter parameters
PageRequest(link) ==
    IF Truthy(link) THEN [url |-> link]
    ELSE [url |-> "API_BASE", params |-> {"currencyCode", "$filter"}]

InitFetch ==
    /\ results = <<>>
    /\ next_link = NoneStr
    /\ requests = <<>>
    /\ served = <<>>
    /\ fetched = Unbound
    /\ fetch_pc = "loop"
    /\ SelIdle
    /\ MainIdle

\* requests.get / raise_for_status raise: the exception leaves fetch_prices
FetchPageFails ==
    /\ fetch_pc = "loop"
    /\ requests' = Append(requests, PageRequest(next_link))
    /\ fetch_pc' = "raised"
    /\ UNCHANGED <<results, next_link, served, fetched>>
    /\ UNCHANGED selVars
    /\ UNCHANGED mainVars

\* one iteration of the while loop with a successful response
FetchPage ==
    /\ fetch_pc = "loop"
    /\ \E data \in Bodies :
          \* the catalog serves at most MaxPages pages for a query
          /\ Truthy(BodyNextLink(data)) => Len(served) + 1 < MaxPages
          /\ requests' = Append(requests, PageRequest(next_link))
          /\ served' = Append(served, data)
          /\ results' = Extend(results, BodyItems(data))
          /\ next_link' = BodyNextLink(data)
          /\ IF Truthy(BodyNextLink(data))
             THEN fetch_pc' = "loop" /\ fetched' = fetched
             ELSE fetch_pc' = "returned" /\ fetched' = results'
    /\ UNCHANGED selVars
    /\ UNCHANGED mainVars

NextFetch == FetchPageFails \/ FetchPage

SpecFetch == InitFetch /\ [][NextFetch]_vars

(***************************************************************************)
(* Claim about fetch_prices (SpecFetch).                                   *)
(***************************************************************************)
\* the items of the pages in order
RECURSIVE ConcatItems(_)
ConcatItems(bodies) ==
    IF bodies = <<>> THEN <<>>
    ELSE (IF "Items" \in DOMAIN Head(bodies) THEN Head(bodies).Items ELSE <<>>)
         \o ConcatItems(Tail(bodies))

Continues(body) ==
    /\ "NextPageLink" \in DOMAIN body
    /\ body.NextPageLink \in Links

\* C9: fetch_prices returns only after a page without continuation
\* reference, and then returns the items of every fetched page concatenated
\* in page order, duplicates preserved; it has ended exactly when a page
\* without continuation was served or a request failed; a failed request is
\* the last request, and nothing is returned, not even the earlier pages;
\* every request after the first is the continuation reference verbatim.
C9_FetchConcatenatesUntilNoLink ==
    /\ fetch_pc \in {"loop", "returned", "raised"} =>
          /\ \A i \in 1..(Len(served) - 1) : Continues(served[i])
          /\ \A i \in 2..Len(requests) :
                requests[i] = [url |-> served[i - 1].NextPageLink]
    /\ fetch_pc = "returned" =>
          /\ served # <<>>
          /\ ~ Continues(served[Len(served)])
          /\ fetched = ConcatItems(served)
          /\ Len(requests) = Len(served)
    /\ fetch_pc = "raised" =>
          /\ fetched = Unbound
          /\ Len(requests) = Len(served) + 1
          /\ \A i \in 1..Len(served) : Continues(served[i])
    /\ fetch_pc = "loop" =>
          /\ fetched = Unbound
          /\ Len(requests) = Len(served)
          /\ \A i \in 1..Len(served) : Continues(served[i])

\* C9 witness: two pages were fetched, both carry the same item, and the
\* call returned the item twice
C9_Witness ==
    /\ fetch_pc = "returned"
    /\ Len(served) = 2
    /\ fetched = <<"a", "a">>

(***************************************************************************)
(* Spec: one run of main against a catalog that answers every query with   *)
(* a failure or with a record list of its choice.                          *)
(***************************************************************************)
\* records a "Virtual Machines" query can yield: the Windows and the Linux
\* meter of the requested size, and a dearer Windows meter of another size
VmCatalog ==
    {VmBase,
     [VmBase EXCEPT !.productName = pn_Linux, !.retailPrice = 1],
     [VmBase EXCEPT !.skuName = sku_D4s_v5, !.armSkuName = arm_D4s_v5,
                    !.meterName = sku_D4s_v5, !.retailPrice = 3]}

\* records a "Storage" query can yield: the LRS meter with and without a
\* price, and the ZRS meter
DiskCatalog ==
    {DiskBase,
     Without(DiskBase, "retailPrice"),
     [DiskBase EXCEPT !.meterName = mn_P10_ZRS, !.retailPrice = 3]}

\* an inter-zone transfer meter
ZoneBase ==
    [type |-> "Consumption", unitOfMeasure |-> uom_1_GB,
     productName |-> pn_Bandwidth, meterName |-> mn_Inter_Zone,
     retailPrice |-> 2]

\* records a "Networking" or "Bandwidth" query can yield: two zone meters
\* and a cheaper egress meter that is no candidate
BandwidthCatalog ==
    {ZoneBase,
     [ZoneBase EXCEPT !.meterName = mn_Zone_In, !.retailPrice = 1],
     [ZoneBase EXCEPT !.meterName = mn_Egress, !.retailPrice = 0]}

\* what a call of fetch_prices ends with: an exception, or the list of all
\* items of all pages
FetchOutcomes(catalog) ==
    {[raised |-> TRUE]}
    \cup {[raised |-> FALSE, items |-> its] : its \in BoundedSeq(catalog, MaxRecs)}

\* --interzone-gb: none, or some traffic
InterzoneGbChoices == {0, 5}

Init ==
    /\ args \in [primary : {"eastus2"}, dr : {"centralus"},
                 vm_size : {size_D8s_v5, size_Standard_D8s_v5},
                 windows : BOOLEAN,
                 instances : 0..MaxInstances,
                 disk_redundancy : {red_lrs, red_zrs},
                 interzone_gb : InterzoneGbChoices,
                 dr_mode : {"cold", "warm", "hot"}]
    /\ pc = "primary_vm"
    /\ queries = <<>>
    /\ vm = Unbound /\ disk = Unbound
    /\ total = 0 /\ details = <<>>
    /\ f = 0 /\ recs = Unbound /\ iz = Unbound
    /\ primary_total = Unbound /\ primary_details = Unbound
    /\ dr_instances = Unbound /\ disk_count = Unbound
    /\ dr_vm = Unbound /\ dr_disk = Unbound
    /\ dr_total = Unbound /\ dr_details = Unbound
    /\ stdout = <<>> /\ stderr = <<>>
    /\ exit_code = <<>>
    /\ SelIdle
    /\ FetchIdle

\* the filter fetch_prices is called with
Query(service, region) == [service |-> service, region |-> region]

\* mutant: a DR failure is reported like a primary failure
DrErrorAsPrimary(reason) ==
    /\ stderr' = <<"Error computing primary costs", reason>>
    /\ exit_code' = <<2>>
    /\ pc' = "exited"

\* except of the primary try: message on stderr, sys.exit(2)
PrimaryError(reason) ==
    /\ stderr' = <<"Error computing primary costs", reason>>
    /\ exit_code' = <<2>>
    /\ pc' = "exited"

\* except of the DR try: message on stderr, sys.exit(3)
DrError(reason) ==
    /\ stderr' = <<"Error computing DR costs", reason>>
    /\ exit_code' = <<3>>
    /\ pc' = "exited"

\* compute_primary_costs returns (total, details) to main
ReturnPrimary(cost) ==
    /\ primary_total' = cost.total
    /\ primary_details' = cost.details
    /\ pc' = "dr_topology"

\* compute_primary_costs: the VM price and compute_vm_month
PrimaryVm ==
    /\ pc = "primary_vm"
    /\ \E outcome \in FetchOutcomes(VmCatalog) :
          /\ queries' = Append(queries, Query("Virtual Machines", args.primary))
          /\ IF outcome.raised
             THEN /\ PrimaryError("TransportError")
                  /\ UNCHANGED <<vm, total, details>>
             ELSE LET price == get_vm_hourly_price(outcome.items, args.vm_size,
                                                   args.windows)
                  IN  /\ vm' = price
                      /\ IF IsNone(price)
                         THEN /\ PrimaryError("Could not find VM price")
                              /\ UNCHANGED <<total, details>>
                         ELSE /\ details' = SetKey(details, "compute_vm_month",
                                                   VmMonth(args.instances, price))
                              /\ total' = total + VmMonth(args.instances, price)
                              /\ pc' = "primary_disk"
                              /\ UNCHANGED <<stderr, exit_code>>
    /\ UNCHANGED <<args, disk, f, recs, iz, primary_total, primary_details,
                   dr_instances, disk_count, dr_vm, dr_disk, dr_total,
                   dr_details, stdout>>
    /\ UNCHANGED selVars
    /\ UNCHANGED fetchVars

\* compute_primary_costs: the disk price and os_disks_month, then the
\* return when no inter-zone traffic is configured
PrimaryDisk ==
    /\ pc = "primary_disk"
    /\ \E outcome \in FetchOutcomes(DiskCatalog) :
          /\ queries' = Append(queries, Query("Storage", args.primary))
          /\ IF outcome.raised
             THEN /\ PrimaryError("TransportError")
                  /\ UNCHANGED <<disk, total, details, f, primary_total,
                                 primary_details>>
             ELSE LET price == get_disk_monthly_price(outcome.items,
                                                      args.disk_redundancy)
                      sum == total + DiskMonth(args.instances, price)
                      dict == SetKey(details, "os_disks_month",
                                     DiskMonth(args.instances, price))
                  IN  /\ disk' = price
                      /\ IF IsNone(price)
                         THEN /\ PrimaryError("Could not find disk price")
                              /\ UNCHANGED <<total, details, f, primary_total,
                                             primary_details>>
                         ELSE /\ details' = dict
                              /\ total' = sum
                              /\ UNCHANGED <<stderr, exit_code>>
                              /\ IF args.interzone_gb > 0
                                 THEN /\ f' = 1
                                      /\ pc' = "interzone_fetch"
                                      /\ UNCHANGED <<primary_total, primary_details>>
                                 ELSE /\ ReturnPrimary([total |-> sum, details |-> dict])
                                      /\ UNCHANGED f
    /\ UNCHANGED <<args, vm, recs, iz, dr_instances, disk_count, dr_vm, dr_disk,
                   dr_total, dr_details, stdout>>
    /\ UNCHANGED selVars
    /\ UNCHANGED fetchVars

\* find_interzone_bandwidth_rate: recs = fetch_prices(f, currency) for the
\* filter in turn
InterzoneFetch ==
    /\ pc = "interzone_fetch"
    /\ \E outcome \in FetchOutcomes(BandwidthCatalog) :
          /\ queries' = Append(queries, Query(Filters[f], args.primary))
          /\ IF outcome.raised
             THEN /\ PrimaryError("TransportError")
                  /\ UNCHANGED recs
             ELSE /\ recs' = outcome.items
                  /\ pc' = "interzone_candidates"
                  /\ UNCHANGED <<stderr, exit_code>>
    /\ UNCHANGED <<args, vm, disk, total, details, f, iz, primary_total,
                   primary_details, dr_instances, disk_count, dr_vm, dr_disk,
                   dr_total, dr_details, stdout>>
    /\ UNCHANGED selVars
    /\ UNCHANGED fetchVars

\* find_interzone_bandwidth_rate: the candidates of the filter in turn; with
\* a candidate, or after the last filter, the function returns and
\* compute_primary_costs records interzone_data_month and returns
InterzoneCandidates ==
    /\ pc = "interzone_candidates"
    /\ LET candidates == ZoneCandidates(recs)
           rate == IF candidates # <<>> THEN SortAsc(candidates)[1] ELSE None
           cost == AddInterzone([total |-> total, details |-> details],
                                args.interzone_gb, rate)
       IN  IF candidates = <<>> /\ f < Len(Filters)
           THEN /\ f' = f + 1
                /\ pc' = "interzone_fetch"
                /\ recs' = Unbound
                /\ UNCHANGED <<iz, total, details, primary_total, primary_details>>
           ELSE /\ iz' = rate
                /\ total' = cost.total
                /\ details' = cost.details
                /\ ReturnPrimary(cost)
                /\ recs' = Unbound
                /\ UNCHANGED f
    /\ UNCHANGED <<args, queries, vm, disk, dr_instances, disk_count, dr_vm,
                   dr_disk, dr_total, dr_details, stdout, stderr, exit_code>>
    /\ UNCHANGED selVars
    /\ UNCHANGED fetchVars

\* main: dr_instances, dr_total, dr_details and disk_count
DrTopology ==
    /\ pc = "dr_topology"
    /\ dr_instances' = DrInstances(args.dr_mode, args.instances)
    /\ disk_count' = DiskCount(args.dr_mode, args.instances)
    /\ dr_total' = 0
    /\ dr_details' = <<>>
    /\ pc' = IF dr_instances' > 0 THEN "dr_vm" ELSE "dr_disk"
    /\ UNCHANGED <<args, queries, vm, disk, total, details, f, recs, iz,
                   primary_total, primary_details, dr_vm, dr_disk, stdout,
                   stderr, exit_code>>
    /\ UNCHANGED selVars
    /\ UNCHANGED fetchVars

\* main: "if dr_instances > 0", the DR VM price and compute_vm_month
DrVm ==
    /\ pc = "dr_vm"
    /\ \E outcome \in FetchOutcomes(VmCatalog) :
          /\ queries' = Append(queries, Query("Virtual Machines", args.dr))
          /\ IF outcome.raised
             THEN /\ DrError("TransportError")
                  /\ UNCHANGED <<dr_vm, dr_total, dr_details>>
             ELSE LET price == get_vm_hourly_price(outcome.items, args.vm_size,
                                                   args.windows)
                  IN  /\ dr_vm' = price
                      /\ IF IsNone(price)
                         THEN /\ DrError("Could not find DR VM price")
                              /\ UNCHANGED <<dr_total, dr_details>>
                         ELSE /\ dr_details' = SetKey(dr_details, "compute_vm_month",
                                                      VmMonth(dr_instances, price))
                              /\ dr_total' = dr_total + VmMonth(dr_instances, price)
                              /\ pc' = "dr_disk"
                              /\ UNCHANGED <<stderr, exit_code>>
    /\ UNCHANGED <<args, vm, disk, total, details, f, recs, iz, primary_total,
                   primary_details, dr_instances, disk_count, dr_disk, stdout>>
    /\ UNCHANGED selVars
    /\ UNCHANGED fetchVars

\* main: the DR disk price and os_disks_month
DrDisk ==
    /\ pc = "dr_disk"
    /\ \E outcome \in FetchOutcomes(DiskCatalog) :
          /\ queries' = Append(queries, Query("Storage", args.dr))
          /\ IF outcome.raised
             THEN /\ DrError("TransportError")
                  /\ UNCHANGED <<dr_disk, dr_total, dr_details>>
             ELSE LET price == get_disk_monthly_price(outcome.items,
                                                      args.disk_redundancy)
                  IN  /\ dr_disk' = price
                      /\ IF IsNone(price)
                         THEN /\ DrError("Could not find DR disk price")
                              /\ UNCHANGED <<dr_total, dr_details>>
                         ELSE /\ dr_details' = SetKey(dr_details, "os_disks_month",
                                                      DiskMonth(disk_count, price))
                              /\ dr_total' = dr_total + DiskMonth(disk_count, price)
                              /\ pc' = "output"
                              /\ UNCHANGED <<stderr, exit_code>>
    /\ UNCHANGED <<args, vm, disk, total, details, f, recs, iz, primary_total,
                   primary_details, dr_instances, disk_count, dr_vm, stdout>>
    /\ UNCHANGED selVars
    /\ UNCHANGED fetchVars

\* main: the summary on stdout; the process ends with status 0
PrintSummary ==
    /\ pc = "output"
    /\ stdout' = [primary_details |-> primary_details,
                  primary_total |-> primary_total,
                  dr_details |-> dr_details,
                  dr_total |-> dr_total]
    /\ exit_code' = <<0>>
    /\ pc' = "exited"
    /\ UNCHANGED <<args, queries, vm, disk, total, details, f, recs, iz,
                   primary_total, primary_details, dr_instances, disk_count,
                   dr_vm, dr_disk, dr_total, dr_details, stderr>>
    /\ UNCHANGED selVars
    /\ UNCHANGED fetchVars

Next ==
    \/ PrimaryVm
    \/ PrimaryDisk
    \/ InterzoneFetch
    \/ InterzoneCandidates
    \/ DrTopology
    \/ DrVm
    \/ DrDisk
    \/ PrintSummary

Spec == Init /\ [][Next]_vars

(***************************************************************************)
(* Claims about one run of main (Spec).                                    *)
(***************************************************************************)
Issued(q) == \E i \in DOMAIN queries : queries[i] = q

Running == pc # "idle"

\* C1: whenever VM price selection or disk price selection returns none the
\* computation fails with the pricing-not-found error, and no breakdown and
\* no total reach the caller; when VM selection fails the disk price query
\* is never issued.
C1_PricingNotFoundAborts ==
    /\ vm = None =>
          /\ exit_code = <<2>>
          /\ stderr = <<"Error computing primary costs", "Could not find VM price">>
          /\ primary_details = Unbound
          /\ stdout = <<>>
          /\ ~ Issued(Query("Storage", args.primary))
    /\ disk = None =>
          /\ exit_code = <<2>>
          /\ stderr = <<"Error computing primary costs", "Could not find disk price">>
          /\ primary_details = Unbound
          /\ stdout = <<>>
    /\ dr_vm = None =>
          /\ exit_code = <<3>>
          /\ stderr = <<"Error computing DR costs", "Could not find DR VM price">>
          /\ stdout = <<>>
          /\ ~ Issued(Query("Storage", args.dr))
    /\ dr_disk = None =>
          /\ exit_code = <<3>>
          /\ stderr = <<"Error computing DR costs", "Could not find DR disk price">>
          /\ stdout = <<>>

\* C1 witness: the VM price was found and compute_vm_month added, then disk
\* selection returned none: the run ended without a primary total
C1_Witness ==
    /\ disk = None
    /\ vm \notin {None, Unbound}
    /\ total > 0
    /\ primary_details = Unbound
    /\ exit_code = <<2>>

\* C2: for every primary instance count n >= 0 the DR topology is
\* (compute instances, disk count) = (0, n) for cold, (1, 1) for warm and
\* (n, n) for hot.
C2_DrTopologyTable ==
    dr_details # Unbound =>
        <<dr_instances, disk_count>> =
            CASE args.dr_mode = "cold" -> <<0, args.instances>>
              [] args.dr_mode = "warm" -> <<1, 1>>
              [] args.dr_mode = "hot" -> <<args.instances, args.instances>>

\* C2 witness: cold DR of two primary instances has no compute and two disks
C2_Witness ==
    /\ Running
    /\ dr_details # Unbound
    /\ args.dr_mode = "cold"
    /\ args.instances = 2
    /\ dr_instances = 0
    /\ disk_count = 2

\* the inter-zone queries issued so far, in order
RECURSIVE InterzoneQueries(_)
InterzoneQueries(qs) ==
    IF qs = <<>> THEN <<>>
    ELSE IF Head(qs).service \in {"Networking", "Bandwidth"}
         THEN <<Head(qs).service>> \o InterzoneQueries(Tail(qs))
         ELSE InterzoneQueries(Tail(qs))

\* C6: find_interzone_bandwidth_rate issues the Networking query first; if
\* that query yields a candidate (unit contains "gb", product name contains
\* "bandwidth", meter name contains "zone") it returns the lowest-priced
\* candidate of that query and never issues the Bandwidth query; the second
\* query is issued only when the first yields no candidate, and the result
\* is none only when neither query yields a candidate.
C6_FirstQueryWithCandidateWins ==
    /\ [](Running =>
            /\ InterzoneQueries(queries) \in
                  {<<>>, <<"Networking">>, <<"Networking", "Bandwidth">>}
            /\ iz = None => InterzoneQueries(queries) = <<"Networking", "Bandwidth">>)
    /\ [][pc = "interzone_candidates" =>
            LET text(r, k) == IF k \in DOMAIN r THEN r[k] ELSE <<>>
                price(r) == IF "retailPrice" \in DOMAIN r THEN r.retailPrice ELSE 0
                cands == {r \in {recs[i] : i \in DOMAIN recs} :
                            /\ Contains(Lower(text(r, "unitOfMeasure")), str_gb)
                            /\ Contains(Lower(text(r, "productName")), str_bandwidth)
                            /\ Contains(Lower(text(r, "meterName")), str_zone)}
                first == InterzoneQueries(queries) = <<"Networking">>
            IN  /\ queries' = queries
                /\ cands # {} =>
                      /\ iz' \in cands
                      /\ \A c \in cands : price(iz') <= price(c)
                      /\ pc' = "dr_topology"
                /\ (cands = {} /\ first) =>
                      /\ pc' = "interzone_fetch"
                      /\ iz' = Unbound
                /\ (cands = {} /\ ~ first) => iz' = None
                /\ iz' = None => cands = {} /\ ~ first
                /\ pc' = "interzone_fetch" => cands = {} /\ first]_vars
    /\ [][pc = "interzone_fetch" =>
            InterzoneQueries(queries') =
                IF InterzoneQueries(queries) = <<>>
                THEN <<"Networking">> ELSE <<"Networking", "Bandwidth">>]_vars

\* C6 witness: the first query had no candidate, the second was issued and
\* the cheaper of its zone meters was returned
C6_Witness ==
    /\ Running
    /\ InterzoneQueries(queries) = <<"Networking", "Bandwidth">>
    /\ iz = [ZoneBase EXCEPT !.meterName = mn_Zone_In, !.retailPrice = 1]

\* C7: when the configured inter-zone GB/month is > 0, VM and disk prices
\* are found and the rate finder returns none, the computation succeeds and
\* the breakdown has interzone_data_month = 0 exactly: the key is there, the
\* total is unchanged by it and no error is raised.
C7_MissingRateRecordedAsZero ==
    /\ iz = None =>
          /\ args.interzone_gb > 0
          /\ primary_details # Unbound
          /\ DOMAIN primary_details =
                {"compute_vm_month", "os_disks_month", "interzone_data_month"}
          /\ primary_details.interzone_data_month = 0
          /\ primary_total =
                primary_details.compute_vm_month + primary_details.os_disks_month
          /\ exit_code # <<2>>
    /\ (Running /\ primary_details # Unbound /\ args.interzone_gb > 0) =>
          "interzone_data_month" \in DOMAIN primary_details

\* C7 witness: both inter-zone queries came back without a candidate and the
\* primary costs were returned with a positive total
C7_Witness ==
    /\ iz = None
    /\ primary_details # Unbound
    /\ primary_details.compute_vm_month > 0
    /\ primary_details.os_disks_month > 0
    /\ primary_details.interzone_data_month = 0

DrSucceeded == pc = "output" \/ exit_code = <<0>>

\* what holds of the primary plan in both versions of C8
C8_Primary ==
    /\ vm = None => exit_code = <<2>>
    /\ (Running /\ primary_details # Unbound) =>
          /\ Issued(Query("Virtual Machines", args.primary))
          /\ "compute_vm_month" \in DOMAIN primary_details
          /\ args.instances = 0 => primary_details.compute_vm_month = 0
          /\ args.instances > 0 =>
                primary_details.compute_vm_month = args.instances * 730 * PriceKey(vm)

\* C8 (as stated): for every plan that is costed (primary, and DR under
\* cold, warm and hot) the VM price is resolved as a hard dependency and a
\* successful breakdown contains compute_vm_month, which is 0 when the
\* plan's compute instance count is 0.
C8_EveryPlanResolvesVmPrice ==
    /\ C8_Primary
    /\ dr_vm = None => exit_code = <<3>>
    /\ DrSucceeded =>
          /\ Issued(Query("Virtual Machines", args.dr))
          /\ "compute_vm_month" \in DOMAIN dr_details
          /\ dr_instances = 0 => dr_details.compute_vm_month = 0

\* C8 (amended): for the primary plan the VM price is a hard dependency and
\* a successful breakdown contains compute_vm_month, which is 0 when the
\* instance count is 0.  For the DR plan the VM price is resolved only when
\* the DR compute instance count is > 0 (warm, and hot with at least one
\* instance): then it is a hard dependency and the successful DR breakdown
\* contains compute_vm_month.  When the DR compute instance count is 0
\* (cold, and hot with no instance) no DR VM price query is issued and the
\* successful DR breakdown has no compute_vm_month key.
C8_DrResolvesVmPriceOnlyWithCompute ==
    /\ C8_Primary
    /\ dr_vm = None => exit_code = <<3>>
    /\ dr_details # Unbound =>
          /\ dr_instances = 0 <=>
                (args.dr_mode = "cold" \/ (args.dr_mode = "hot" /\ args.instances = 0))
          /\ dr_instances = 0 =>
                /\ ~ Issued(Query("Virtual Machines", args.dr))
                /\ dr_vm = Unbound
                /\ "compute_vm_month" \notin DOMAIN dr_details
          /\ (dr_instances > 0 /\ DrSucceeded) =>
                /\ Issued(Query("Virtual Machines", args.dr))
                /\ "compute_vm_month" \in DOMAIN dr_details
                /\ dr_details.compute_vm_month = dr_instances * 730 * PriceKey(dr_vm)

\* C8 witness: a cold run without primary instances succeeded; the primary
\* breakdown has compute_vm_month = 0 and the DR breakdown has no such key
C8_Witness ==
    /\ exit_code = <<0>>
    /\ args.dr_mode = "cold"
    /\ args.instances = 0
    /\ stdout.primary_details.compute_vm_month = 0
    /\ DOMAIN stdout.dr_details = {"os_disks_month"}

\* C10: every price query of the DR phase happens after the primary cost
\* computation has completed successfully; if the primary phase fails the
\* run ends with exit code 2 without any DR query; if the DR phase fails the
\* run ends with exit code 3; in both cases no cost breakdown is output.
C10_PrimaryBeforeDr ==
    Running =>
        /\ (\E i \in DOMAIN queries : queries[i].region = args.dr) =>
              /\ primary_details # Unbound
              /\ pc \notin {"primary_vm", "primary_disk", "interzone_fetch",
                            "interzone_candidates"}
        /\ \A i, j \in DOMAIN queries :
              (i < j /\ queries[i].region = args.dr) => queries[j].region = args.dr
        /\ (pc = "exited" /\ primary_details = Unbound) =>
              /\ exit_code = <<2>>
              /\ stderr[1] = "Error computing primary costs"
              /\ \A i \in DOMAIN queries : queries[i].region = args.primary
              /\ stdout = <<>>
        /\ (pc = "exited" /\ primary_details # Unbound /\ stderr # <<>>) =>
              /\ exit_code = <<3>>
              /\ stderr[1] = "Error computing DR costs"
              /\ stdout = <<>>
        /\ exit_code = <<2>> => primary_details = Unbound /\ stdout = <<>>
        /\ exit_code = <<3>> => primary_details # Unbound /\ stdout = <<>>
        /\ stdout # <<>> => exit_code = <<0>> /\ stderr = <<>>

\* C10 witness: the DR disk query failed after a DR VM query, the run ended
\* with exit code 3 and printed no breakdown
C10_Witness ==
    /\ exit_code = <<3>>
    /\ Issued(Query("Virtual Machines", args.dr))
    /\ Issued(Query("Storage", args.dr))
    /\ primary_details # Unbound
    /\ stdout = <<>>

====
